---- MODULE Spec2Model ----
(***************************************************************************)
(* Model of the two analysis scripts of analisis_ventas:                   *)
(*   anova.py  analisis_anova_completo(ruta_archivo_excel)                 *)
(*   main.py   analyze_sales_data(file_path, santa_ana_sheet_name)         *)
(* One behaviour is one call of one of the two functions on one workbook.  *)
(* The statistical library routines are modelled by what the scripts read  *)
(* from them: the ANOVA p-value is a value the library returns (any of     *)
(* PValues, or NaN), the Tukey table holds one row per pair of groups in   *)
(* label order with meandiff = mean(group2) - mean(group1).                *)
(* Numbers: p-values are in thousandths (alpha = 0.05 is 50); a mean or a  *)
(* mean difference is an exact fraction [num, den]; NaN is the value NaN.  *)
(***************************************************************************)
EXTENDS Integers, Sequences, FiniteSets, TLC

\* ---------------------------------------------------------------- bounds
MaxRows == 5
MaxCols == 3

\* ------------------------------------------------------------- constants
\* pandas' missing value; every comparison with it is false (see Less).
NaN == -1
\* alpha = 0.05, in thousandths.
alpha == 50
\* Default of the parameter santa_ana_sheet_name.
santa_ana_sheet_name == "Santa Ana"

\* The sheet names a workbook may hold, in the order of the workbook and of
\* numpy's sort of the labels.
SheetOrder == <<"Norte", "Santa Ana", "Sur">>
StoreNames == {SheetOrder[i] : i \in 1..Len(SheetOrder)}
Rank(name) == CHOOSE i \in 1..Len(SheetOrder) : SheetOrder[i] = name

\* Values the inputs are drawn from.
Meses == {1, 2}
VentasValues == {NaN, 1, 2}
PValues == {NaN, 49, 50}
PAdjValues == {49, 50}
\* A cell of a column past the first two.
ExtraCell == 7

VARIABLES
    script,           \* which entry point runs: "anova" or "main"
    fileStatus,       \* "ok", "missing" (no file at the path), "corrupt"
    workbook,         \* sheet name -> rows (first two cells of each row)
    pc,               \* position in the function
    exc,              \* exception that left the function, or "none"
    out,              \* console sections printed so far, in order
    wideSeen,         \* a sheet with more than two columns has been read
    df_all_sales,     \* the unified table
    ic_report,        \* the Confidence-Interval Reporter's line per month
    fitted,           \* ols(...).fit() has been called on df_all_sales
    p_value_anova,    \* PR(>F) of the store factor; Unset before the table
    tukeyCalled,      \* pairwise_tukeyhsd has been called
    extremes          \* what the Extremes Comparator found and reported

vars == <<script, fileStatus, workbook, pc, exc, out, wideSeen, df_all_sales,
          ic_report, fitted, p_value_anova, tukeyCalled, extremes>>

Unset == -2
NoExtremes == [highest |-> "", lowest |-> "", found |-> FALSE,
               group1 |-> "", group2 |-> "",
               meandiff |-> [num |-> 0, den |-> 0],
               mean_diff_tukey |-> [num |-> 0, den |-> 0],
               p_value_tukey |-> Unset]

\* ------------------------------------------------------------ arithmetic
\* x < y on floats: false when either side is NaN.
Less(x, y) == x # NaN /\ y # NaN /\ x < y
isna(x) == x = NaN

Frac(n, d) == [num |-> n, den |-> d]
FracNeg(f) == [num |-> 0 - f.num, den |-> f.den]
FracEq(f, g) == f.num * g.den = g.num * f.den

RECURSIVE SumSeq(_)
SumSeq(s) == IF s = <<>> THEN 0 ELSE Head(s) + SumSeq(Tail(s))

RECURSIVE SumSq(_)
SumSq(s) == IF s = <<>> THEN 0 ELSE Head(s) * Head(s) + SumSq(Tail(s))

\* The elements of a set of integers in ascending order.
RECURSIVE SortedSeq(_)
SortedSeq(S) ==
    IF S = {} THEN <<>>
    ELSE LET m == CHOOSE x \in S : \A y \in S : x <= y
         IN <<m>> \o SortedSeq(S \ {m})

\* --------------------------------------------------------------- workbook
Row(m, v) == [Fecha |-> m, Ventas |-> v]

\* Fecha is read only by the Confidence-Interval Reporter, on the designated
\* sheet (main.py:25-28); elsewhere it is carried and never looked at.
MesesOf(sc, name) ==
    IF sc = "main" /\ name = santa_ana_sheet_name THEN Meses ELSE {1}

\* A cell code names a row of a sheet: sheet rank, month, sales value.
CodeOf(name, m, v) == Rank(name) * 100 + m * 10 + v + 1
CodeSheet(c) == SheetOrder[c \div 100]
CodeRow(c) == Row((c % 100) \div 10, (c % 10) - 1)
Codes(sc, S) ==
    UNION {{CodeOf(n, m, v) : m \in MesesOf(sc, n), v \in VentasValues} : n \in S}

\* The ascending lists of at most k codes of C, none below lo.
RECURSIVE SortedLists(_, _, _)
SortedLists(k, C, lo) ==
    {<<>>} \cup
    (IF k = 0 THEN {}
     ELSE UNION {{<<c>> \o s : s \in SortedLists(k - 1, C, c)} :
                    c \in {x \in C : x >= lo}})

\* The workbook whose sheets are S and whose rows are those of the list:
\* each sheet's rows in ascending order (no step of either script depends on
\* the order of a sheet's rows).
BookOf(S, list) ==
    [n \in S |->
        LET mine == SelectSeq(list, LAMBDA c : CodeSheet(c) = n)
        IN [i \in 1..Len(mine) |-> CodeRow(mine[i])]]

NoBook == [n \in {} |-> <<>>]

\* xls.sheet_names
sheet_names == SelectSeq(SheetOrder, LAMBDA n : n \in DOMAIN workbook)

\* The column counts the sheets may have: at least the two the loader needs.
ColumnCounts == [DOMAIN workbook -> 2..MaxCols]

\* pd.read_excel(xls, sheet_name): a frame of ncols columns; a row is the
\* tuple of its cells.
read_excel(name, ncols) ==
    [ncols |-> ncols,
     rows |-> [i \in 1..Len(workbook[name]) |->
                 <<workbook[name][i].Fecha, workbook[name][i].Ventas>>
                 \o [j \in 1..(ncols - 2) |-> ExtraCell]]]

\* df.iloc[:, [0, 1]]
iloc01(df) ==
    [ncols |-> 2, rows |-> [i \in 1..Len(df.rows) |-> SubSeq(df.rows[i], 1, 2)]]

\* df.columns = ['Fecha', 'Ventas']: pandas raises ValueError (length
\* mismatch) unless the frame has exactly two columns.
columnsFit(df) == df.ncols = 2

\* The frame with its columns named and the store label attached.
labelled(df, name) ==
    [i \in 1..Len(df.rows) |->
        [Fecha |-> df.rows[i][1], Ventas |-> df.rows[i][2], Supermercado |-> name]]

RECURSIVE concat(_)
concat(frames) == IF frames = <<>> THEN <<>> ELSE Head(frames) \o concat(Tail(frames))

\* df.dropna(subset=['Ventas'])
dropnaKeepsAll(df) == df
dropna(df) == SelectSeq(df, LAMBDA r : ~isna(r.Ventas))

unique(df) == {df[i].Supermercado : i \in 1..Len(df)}

\* Ventas of one store, missing values skipped (as groupby(...).mean() and
\* the model fit do).
VentasOf(df, name) ==
    LET rs == SelectSeq(df, LAMBDA r : r.Supermercado = name /\ ~isna(r.Ventas))
    IN [i \in 1..Len(rs) |-> rs[i].Ventas]

\* Stores with at least one observation: the levels of C(Supermercado).
Groups(df) == {n \in unique(df) : VentasOf(df, n) # <<>>}

\* ------------------------------------------------------------------ Init
\* One call: a script, a path that resolves or not, and (when the file opens)
\* any workbook of at least one sheet and at most MaxRows rows in all.
Init ==
    /\ script \in {"anova", "main"}
    /\ fileStatus \in {"ok", "missing", "corrupt"}
    /\ IF fileStatus = "ok"
       THEN \E S \in SUBSET StoreNames \ {{}} :
              \E list \in SortedLists(MaxRows, Codes(script, S), 0) :
                 workbook = BookOf(S, list)
       ELSE workbook = NoBook
    /\ pc = "start"
    /\ exc = "none"
    /\ out = <<>>
    /\ wideSeen = FALSE
    /\ df_all_sales = <<>>
    /\ ic_report = <<>>
    /\ fitted = FALSE
    /\ p_value_anova = Unset
    /\ tukeyCalled = FALSE
    /\ extremes = NoExtremes

\* The function is left by an exception.
Raise(e) == pc' = "raised" /\ exc' = e

\* =============================================================== anova.py
\* The sections of analisis_anova_completo in their textual order: the
\* position after the section at position p.
AnovaSuccessorPlotsFirst(p) ==
    CASE p = "start" -> "plots"
      [] p = "plots" -> "assume"
      [] p = "assume" -> "anova"
      [] p = "anova" -> "posthoc"
      [] OTHER -> "done"
AnovaSuccessor(p) ==
    CASE p = "start" -> "assume"
      [] p = "assume" -> "plots"
      [] p = "plots" -> "anova"
      [] p = "anova" -> "posthoc"
      [] OTHER -> "done"

\* Section 0, lines 17-40: load every sheet inside try/except.
AnovaLoadFrames(cols) ==
    [i \in 1..Len(sheet_names) |->
        labelled(iloc01(read_excel(sheet_names[i], cols[sheet_names[i]])),
                 sheet_names[i])]

AnovaLoad ==
    /\ script = "anova" /\ pc = "start"
    /\ UNCHANGED <<script, fileStatus, workbook, exc, ic_report, fitted,
                   p_value_anova, tukeyCalled, extremes>>
    /\ IF fileStatus = "missing"
       THEN /\ out' = out \o <<"DataLoader", "ERROR: No se encontro el archivo">>
            /\ pc' = "done"
            /\ UNCHANGED <<wideSeen, df_all_sales>>
       ELSE IF fileStatus = "corrupt"
       THEN /\ out' = out \o <<"DataLoader", "Ocurrio un error inesperado">>
            /\ pc' = "done"
            /\ UNCHANGED <<wideSeen, df_all_sales>>
       ELSE \E cols \in ColumnCounts :
            /\ wideSeen' = (\E n \in DOMAIN workbook : cols[n] > 2)
            /\ df_all_sales' = dropna(concat(AnovaLoadFrames(cols)))
            /\ out' = out \o <<"DataLoader">>
            /\ pc' = AnovaSuccessor(pc)

\* stats.levene(*samples) raises ValueError with fewer than two samples.
leveneRaises(df) == Cardinality(Groups(df)) < 2

\* stats.shapiro(x) needs three values: older scipy raises ValueError,
\* newer scipy warns and returns NaN.
shapiroMayRaise(df) == Len(df) < 3

\* Sections 1-2, lines 42-70: hypotheses, Levene, model fit, Shapiro-Wilk.
AnovaAssumptions ==
    /\ script = "anova" /\ pc = "assume"
    /\ UNCHANGED <<script, fileStatus, workbook, wideSeen, df_all_sales,
                   ic_report, p_value_anova, tukeyCalled, extremes>>
    /\ out' = out \o <<"AssumptionChecker">>
    /\ IF leveneRaises(df_all_sales)
       THEN Raise("ValueError") /\ UNCHANGED fitted
       ELSE /\ fitted' = TRUE
            /\ \E raises \in {r \in BOOLEAN : r => shapiroMayRaise(df_all_sales)} :
                 IF raises THEN Raise("ValueError")
                 ELSE pc' = AnovaSuccessor(pc) /\ UNCHANGED exc

\* Section 3, lines 72-92: the two plots.
AnovaPlots ==
    /\ script = "anova" /\ pc = "plots"
    /\ out' = out \o <<"Visualizer">>
    /\ pc' = AnovaSuccessor(pc)
    /\ UNCHANGED <<script, fileStatus, workbook, exc, wideSeen, df_all_sales,
                   ic_report, fitted, p_value_anova, tukeyCalled, extremes>>

\* The ANOVA decision of both scripts: p_value_anova < alpha.
RejectsNullLeq(p) == p # NaN /\ p <= alpha
RejectsNull(p) == Less(p, alpha)

\* Section 4, lines 94-111: the ANOVA table and the decision.
AnovaTable ==
    /\ script = "anova" /\ pc = "anova"
    /\ \E p \in PValues :
         /\ p_value_anova' = p
         /\ out' = out \o <<"AnovaEngine",
                            IF RejectsNull(p) THEN "SE RECHAZA H_0"
                            ELSE "NO se rechaza H_0">>
    /\ pc' = AnovaSuccessor(pc)
    /\ UNCHANGED <<script, fileStatus, workbook, exc, wideSeen, df_all_sales,
                   ic_report, fitted, tukeyCalled, extremes>>

\* run_post_hoc, set at lines 106 and 111.
run_post_hoc == RejectsNull(p_value_anova)

\* Section 5, lines 113-126: Tukey HSD when run_post_hoc.
AnovaPostHoc ==
    /\ script = "anova" /\ pc = "posthoc"
    /\ IF run_post_hoc
       THEN /\ tukeyCalled' = TRUE
            /\ out' = out \o <<"PostHocEngine">>
       ELSE /\ UNCHANGED tukeyCalled
            /\ out' = out \o <<"NO SE REQUIERE ANALISIS POST-HOC">>
    /\ pc' = AnovaSuccessor(pc)
    /\ UNCHANGED <<script, fileStatus, workbook, exc, wideSeen, df_all_sales,
                   ic_report, fitted, p_value_anova, extremes>>

\* ================================================================ main.py
\* Lines 17-18: the workbook is opened outside any try.
MainOpen ==
    /\ script = "main" /\ pc = "start"
    /\ IF fileStatus = "missing" THEN Raise("FileNotFoundError")
       ELSE IF fileStatus = "corrupt" THEN Raise("ValueError")
       ELSE pc' = "ci" /\ UNCHANGED exc
    /\ UNCHANGED <<script, fileStatus, workbook, out, wideSeen, df_all_sales,
                   ic_report, fitted, p_value_anova, tukeyCalled, extremes>>

\* Lines 25-33: rows grouped by month; per month the sum and the count of the
\* non-missing Ventas and the sample standard deviation (ddof = 1), kept as
\* n * sum(x^2) - sum(x)^2 = n (n - 1) std^2, which is NaN below two values
\* and zero exactly when std is zero.
monthly_sales(rows) ==
    LET months == SortedSeq({rows[i].Fecha : i \in 1..Len(rows)})
        vals(m) ==
            LET rs == SelectSeq(rows, LAMBDA r : r.Fecha = m /\ ~isna(r.Ventas))
            IN [i \in 1..Len(rs) |-> rs[i].Ventas]
    IN [k \in 1..Len(months) |->
          LET v == vals(months[k])
              n == Len(v)
          IN [AnioMes |-> months[k],
              Media_Ventas |-> Frac(SumSeq(v), n),
              Desviacion_Estandar |->
                  IF n < 2 THEN NaN ELSE n * SumSq(v) - SumSeq(v) * SumSeq(v),
              N_Observaciones |-> n]]

\* Line 45: the test that decides between the intervals and the message.
HasEnoughDataLoose(n_observaciones, desviacion_estandar) ==
    n_observaciones > 0
HasEnoughData(n_observaciones, desviacion_estandar) ==
    n_observaciones > 1 /\ ~isna(desviacion_estandar)

\* Lines 39-66: one report per month, in month order.
ReportLines(ms) ==
    [k \in 1..Len(ms) |->
        [AnioMes |-> ms[k].AnioMes,
         texto |-> IF HasEnoughData(ms[k].N_Observaciones, ms[k].Desviacion_Estandar)
                   THEN "IC 95% IC 99%"
                   ELSE "No hay suficientes datos"]]

\* Section 1, lines 20-71: the Confidence-Interval Reporter.
MainCI ==
    /\ script = "main" /\ pc = "ci"
    /\ out' = out \o <<"CIReporter">>
    /\ UNCHANGED <<script, fileStatus, workbook, df_all_sales, fitted,
                   p_value_anova, tukeyCalled, extremes>>
    /\ IF santa_ana_sheet_name \in DOMAIN workbook
       THEN \E ncols \in 2..MaxCols :
              LET df_santa_ana == read_excel(santa_ana_sheet_name, ncols)
              IN IF columnsFit(df_santa_ana)
                 THEN /\ ic_report' = ReportLines(monthly_sales(
                                labelled(df_santa_ana, santa_ana_sheet_name)))
                      /\ pc' = "load"
                      /\ UNCHANGED <<exc, wideSeen>>
                 ELSE /\ Raise("ValueError")
                      /\ wideSeen' = TRUE
                      /\ UNCHANGED ic_report
       ELSE /\ pc' = "load"
            /\ UNCHANGED <<exc, wideSeen, ic_report>>

\* Lines 76-82: every sheet read, named and labelled, then concatenated.
MainLoadFrames(cols) ==
    [i \in 1..Len(sheet_names) |->
        labelled(read_excel(sheet_names[i], cols[sheet_names[i]]), sheet_names[i])]

\* Section 2, lines 73-92: the Data Loader of main.py.  The designated sheet
\* was read by section 1 with two columns, so it has two columns here.
MainLoad ==
    /\ script = "main" /\ pc = "load"
    /\ UNCHANGED <<script, fileStatus, workbook, ic_report, fitted,
                   p_value_anova, tukeyCalled, extremes>>
    /\ \E cols \in {c \in ColumnCounts :
                      santa_ana_sheet_name \in DOMAIN workbook
                          => c[santa_ana_sheet_name] = 2} :
         IF \E n \in DOMAIN workbook : ~columnsFit(read_excel(n, cols[n]))
         THEN /\ Raise("ValueError")
              /\ wideSeen' = TRUE
              /\ out' = out \o <<"DataLoader">>
              /\ UNCHANGED df_all_sales
         ELSE LET df == concat(MainLoadFrames(cols))
              IN /\ UNCHANGED <<exc, wideSeen>>
                 /\ IF Cardinality(unique(df)) < 2
                    THEN /\ out' = out \o <<"DataLoader",
                                "Se necesitan al menos dos supermercados">>
                         /\ df_all_sales' = df
                         /\ pc' = "anova"
                    ELSE IF \E i \in 1..Len(df) : isna(df[i].Ventas)
                    THEN /\ df_all_sales' = dropna(df)
                         /\ IF dropna(df) = <<>>
                            THEN /\ out' = out \o <<"DataLoader", "Advertencia",
                                                    "No quedan datos">>
                                 /\ pc' = "done"
                            ELSE /\ out' = out \o <<"DataLoader", "Advertencia">>
                                 /\ pc' = "anova"
                    ELSE /\ out' = out \o <<"DataLoader">>
                         /\ df_all_sales' = df
                         /\ pc' = "anova"

\* Lines 93-121: the model fit, the ANOVA table and the decision.  With fewer
\* than two groups the table has no store row with a p-value: the library
\* raises or yields NaN, depending on its version.
MainAnova ==
    /\ script = "main" /\ pc = "anova"
    /\ fitted' = TRUE
    /\ UNCHANGED <<script, fileStatus, workbook, wideSeen, df_all_sales,
                   ic_report, tukeyCalled, extremes>>
    /\ \E p \in PValues \cup {Unset} :
         /\ Cardinality(Groups(df_all_sales)) < 2 => p \in {NaN, Unset}
         /\ Cardinality(Groups(df_all_sales)) >= 2 => p # Unset
         /\ IF p = Unset
            THEN /\ Raise("ValueError")
                 /\ out' = out \o <<"AnovaEngine">>
                 /\ UNCHANGED p_value_anova
            ELSE /\ p_value_anova' = p
                 /\ out' = out \o <<"AnovaEngine",
                                    IF RejectsNull(p)
                                    THEN "rechazamos la hipotesis nula"
                                    ELSE "no rechazamos la hipotesis nula">>
                 /\ pc' = "extremes"
                 /\ UNCHANGED exc

\* groupby('Supermercado')['Ventas'].mean(): NaN (den = 0) without a value.
MeanOf(df, name) ==
    LET v == VentasOf(df, name) IN Frac(SumSeq(v), Len(v))
FracLess(f, g) == f.num * g.den < g.num * f.den
FracSub(g, f) == Frac(g.num * f.den - f.num * g.den, g.den * f.den)

\* Lines 127-128: the stores in descending order of their mean, NaN last.
\* The sort is not stable: stores of equal mean come in either order.
avg_sales_orders(df) ==
    LET S == unique(df)
        n == Cardinality(S)
    IN {ord \in [1..n -> S] :
          /\ \A i, j \in 1..n : i # j => ord[i] # ord[j]
          /\ \A i, j \in 1..n : i < j =>
               LET a == MeanOf(df, ord[i])
                   b == MeanOf(df, ord[j])
               IN /\ a.den = 0 => b.den = 0
                  /\ (a.den > 0 /\ b.den > 0) => ~FracLess(a, b)}

\* Lines 143-149: one row per pair of groups, the groups in label order,
\* group1 before group2, meandiff = mean(group2) - mean(group1).
pairwise_tukeyhsd(df) ==
    LET ranks == SortedSeq({Rank(g) : g \in unique(df)})
        n == Len(ranks)
        codes == SortedSeq({c \in {i * 10 + j : i, j \in 1..n} :
                              c \div 10 < c % 10})
    IN [k \in 1..Len(codes) |->
          LET g1 == SheetOrder[ranks[codes[k] \div 10]]
              g2 == SheetOrder[ranks[codes[k] % 10]]
          IN [group1 |-> g1, group2 |-> g2,
              meandiff |-> FracSub(MeanOf(df, g2), MeanOf(df, g1))]]

\* Lines 152-156: the rows of the pair {highest, lowest}, in either order.
specific_comparison(tukey_df, highest, lowest) ==
    SelectSeq(tukey_df, LAMBDA r :
        \/ (r.group1 = highest /\ r.group2 = lowest)
        \/ (r.group1 = lowest /\ r.group2 = highest))

\* Lines 160-165: the difference that is printed.
mean_diff_raw(row, lowest) == row.meandiff
mean_diff_reported(row, lowest) ==
    IF row.group1 = lowest THEN FracNeg(row.meandiff) ELSE row.meandiff

\* Section 3, lines 123-189: the Extremes Comparator, Tukey HSD inside it.
MainExtremes ==
    /\ script = "main" /\ pc = "extremes"
    /\ pc' = "done"
    /\ UNCHANGED <<script, fileStatus, workbook, exc, wideSeen, df_all_sales,
                   ic_report, fitted, p_value_anova>>
    /\ IF df_all_sales = <<>>
       THEN /\ out' = out \o <<"ExtremesComparator", "No hay datos disponibles">>
            /\ UNCHANGED <<tukeyCalled, extremes>>
       ELSE \E ord \in avg_sales_orders(df_all_sales) :
            LET highest == ord[1]
                lowest == ord[Len(ord)]
            IN IF RejectsNull(p_value_anova)
               THEN LET sc == specific_comparison(
                                pairwise_tukeyhsd(df_all_sales), highest, lowest)
                    IN /\ tukeyCalled' = TRUE
                       /\ IF sc # <<>>
                          THEN \E padj \in PAdjValues :
                               /\ extremes' =
                                    [highest |-> highest, lowest |-> lowest,
                                     found |-> TRUE,
                                     group1 |-> sc[1].group1, group2 |-> sc[1].group2,
                                     meandiff |-> sc[1].meandiff,
                                     mean_diff_tukey |-> mean_diff_reported(sc[1], lowest),
                                     p_value_tukey |-> padj]
                               /\ out' = out \o <<"ExtremesComparator", "PostHocEngine",
                                    IF Less(padj, alpha)
                                    THEN "estadisticamente significativa"
                                    ELSE "NO es estadisticamente significativa">>
                          ELSE /\ extremes' = [NoExtremes EXCEPT !.highest = highest,
                                                                  !.lowest = lowest]
                               /\ out' = out \o <<"ExtremesComparator", "PostHocEngine",
                                                  "No se encontro una comparacion directa">>
               ELSE /\ extremes' = [NoExtremes EXCEPT !.highest = highest,
                                                       !.lowest = lowest]
                    /\ out' = out \o <<"ExtremesComparator",
                                       "El ANOVA no encontro diferencias">>
                    /\ UNCHANGED tukeyCalled

Next ==
    \/ AnovaLoad
    \/ AnovaAssumptions
    \/ AnovaPlots
    \/ AnovaTable
    \/ AnovaPostHoc
    \/ MainOpen
    \/ MainCI
    \/ MainLoad
    \/ MainAnova
    \/ MainExtremes

Spec == Init /\ [][Next]_vars

\* ================================================================ claims
\* What the workbook holds, read off the sheets themselves.
Designated == workbook[santa_ana_sheet_name]
MonthsOfDesignated == {Designated[i].Fecha : i \in 1..Len(Designated)}
\* The observations (non-missing sales) of month m of the designated sheet.
ObsOfMonth(m) ==
    {i \in 1..Len(Designated) :
        Designated[i].Fecha = m /\ ~isna(Designated[i].Ventas)}
ValuesOfMonth(m) == {Designated[i].Ventas : i \in ObsOfMonth(m)}
LinesOfMonth(m) == {k \in 1..Len(ic_report) : ic_report[k].AnioMes = m}
\* Rows of sheet n that equal row r, and rows of the table that come from
\* sheet n and equal r.
InSheet(n, r) ==
    IF n \in DOMAIN workbook
    THEN Cardinality({i \in 1..Len(workbook[n]) : workbook[n][i] = r})
    ELSE 0
InTable(n, r) ==
    Cardinality({i \in 1..Len(df_all_sales) :
        df_all_sales[i] = [Fecha |-> r.Fecha, Ventas |-> r.Ventas,
                           Supermercado |-> n]})
ValidRows(n) ==
    Cardinality({i \in 1..Len(workbook[n]) : ~isna(workbook[n][i].Ventas)})
AllRows == {Row(m, v) : m \in Meses, v \in VentasValues}

\* The Confidence-Interval Reporter has read the designated sheet (two
\* columns) and gone through its months.
CIReporterRan ==
    /\ script = "main"
    /\ santa_ana_sheet_name \in DOMAIN workbook
    /\ out # <<>>
    /\ ~(pc = "raised" /\ Len(out) = 1 /\ wideSeen)

\* The pipeline components printed so far, in the order they started.
ComponentNames == {"DataLoader", "AssumptionChecker", "Visualizer", "AnovaEngine",
                   "PostHocEngine", "CIReporter", "ExtremesComparator"}
Components == SelectSeq(out, LAMBDA t : t \in ComponentNames)
IsPrefix(s, t) == Len(s) <= Len(t) /\ \A i \in 1..Len(s) : s[i] = t[i]
PositionIn(order, t) == CHOOSE i \in 1..Len(order) : order[i] = t
\* The order of the system overview.
OverviewOrder == <<"DataLoader", "AssumptionChecker", "Visualizer", "AnovaEngine",
                   "PostHocEngine", "CIReporter", "ExtremesComparator">>
\* The order of the sections of each script.
AnovaOrder == <<"DataLoader", "AssumptionChecker", "Visualizer", "AnovaEngine",
                "PostHocEngine">>
MainOrder == <<"CIReporter", "DataLoader", "AnovaEngine", "ExtremesComparator",
               "PostHocEngine">>

\* C1: in both functions the Tukey HSD step has run only if the ANOVA p-value
\* is strictly below alpha, and on a finished run that reached the ANOVA
\* decision it has run exactly when the p-value is strictly below alpha; a
\* p-value equal to alpha (or NaN) never triggers it.
C1_TukeyIffPValueBelowAlpha ==
    /\ tukeyCalled =>
         (p_value_anova # Unset /\ p_value_anova # NaN /\ p_value_anova < alpha)
    /\ (pc = "done" /\ p_value_anova # Unset) =>
         (tukeyCalled <=> (p_value_anova # NaN /\ p_value_anova < alpha))
\* C1 witness: analyze_sales_data finished with a p-value equal to alpha and
\* Tukey HSD not run.
C1_Witness ==
    script = "main" /\ pc = "done" /\ p_value_anova = alpha /\ ~tukeyCalled

\* C2: when the path does not resolve to a file, either function prints the
\* file-not-found diagnostic and returns normally: no exception reaches the
\* caller and nothing runs or prints after the diagnostic.
C2_FileNotFoundReturnsNormally ==
    (fileStatus = "missing" /\ pc # "start") =>
        /\ exc = "none"
        /\ pc = "done"
        /\ out # <<>> /\ out[Len(out)] = "ERROR: No se encontro el archivo"
        /\ ~fitted /\ ~tukeyCalled /\ ic_report = <<>>

\* C3: every month of the designated store with fewer than two observations
\* gets the insufficient-data line and no interval, the reporter does not
\* raise, and it goes on to the remaining months (one line per month) and to
\* the rest of the pipeline.
C3_FewObservationsInsufficient ==
    CIReporterRan =>
        /\ \A m \in MonthsOfDesignated :
             Cardinality(ObsOfMonth(m)) < 2 =>
                /\ Cardinality(LinesOfMonth(m)) = 1
                /\ \A k \in LinesOfMonth(m) :
                     ic_report[k].texto = "No hay suficientes datos"
        /\ \A m \in MonthsOfDesignated : Cardinality(LinesOfMonth(m)) = 1
        /\ pc = "raised" => Len(out) > 1
        /\ pc \notin {"start", "ci"}
\* C3 witness: the run finished after a report on a sheet with a month of
\* one observation and a month of two or more.
C3_Witness ==
    /\ CIReporterRan /\ pc = "done"
    /\ \E m \in MonthsOfDesignated : Cardinality(ObsOfMonth(m)) = 1
    /\ \E m \in MonthsOfDesignated : Cardinality(ObsOfMonth(m)) >= 2

\* C4: when the Tukey row of the pair {highest, lowest} is stored as
\* (group1 = lowest, group2 = highest) the reported difference is the
\* negation of the row's raw meandiff; when it is stored as (highest, lowest)
\* the raw meandiff is reported unchanged.
C4_SignFlippedWhenLowestFirst ==
    extremes.found =>
        /\ (extremes.group1 = extremes.lowest /\ extremes.group2 = extremes.highest)
             => extremes.mean_diff_tukey = FracNeg(extremes.meandiff)
        /\ (extremes.group1 = extremes.highest /\ extremes.group2 = extremes.lowest)
             => extremes.mean_diff_tukey = extremes.meandiff
        /\ {extremes.group1, extremes.group2} = {extremes.highest, extremes.lowest}
\* C4 witness: the matched row is stored (lowest, highest) with a non-zero
\* difference, and the difference has been reported.
C4_Witness ==
    /\ extremes.found
    /\ extremes.group1 = extremes.lowest /\ extremes.group2 = extremes.highest
    /\ extremes.meandiff.num # 0

\* C5: the reported mean difference equals the mean of the highest-average
\* store minus the mean of the lowest-average store, and is never negative.
C5_ReportedIsHighestMinusLowest ==
    extremes.found =>
        /\ FracEq(extremes.mean_diff_tukey,
                  FracSub(MeanOf(df_all_sales, extremes.highest),
                          MeanOf(df_all_sales, extremes.lowest)))
        /\ extremes.mean_diff_tukey.num >= 0

\* C6: for a workbook of at least two sheets with at least two valid rows
\* each, the table passed to the model fit has no missing sales value, as many
\* rows as the sheets have valid rows, every valid row of every sheet exactly
\* as often as the sheet has it (none dropped, none duplicated), each under
\* its sheet's name, and no other row.
C6_TableIsUnionOfValidRows ==
    (/\ fitted
     /\ Cardinality(DOMAIN workbook) >= 2
     /\ \A n \in DOMAIN workbook : ValidRows(n) >= 2) =>
        /\ \A i \in 1..Len(df_all_sales) : ~isna(df_all_sales[i].Ventas)
        /\ Len(df_all_sales) = SumSeq([i \in 1..Len(sheet_names) |->
                                          ValidRows(sheet_names[i])])
        /\ \A n \in StoreNames : \A r \in AllRows :
             InTable(n, r) = (IF isna(r.Ventas) THEN 0 ELSE InSheet(n, r))
\* C6 witness: analyze_sales_data fitted the model on a workbook of two
\* sheets with two valid rows each and a row with a missing sales value.
C6_Witness ==
    /\ fitted /\ script = "main"
    /\ Cardinality(DOMAIN workbook) >= 2
    /\ \A n \in DOMAIN workbook : ValidRows(n) >= 2
    /\ \E n \in DOMAIN workbook : \E i \in 1..Len(workbook[n]) :
         isna(workbook[n][i].Ventas)

\* C7: in analyze_sales_data, when the combined table has fewer than two
\* distinct stores the condition is printed and the ANOVA sub-analysis is
\* skipped: no model fit, no ANOVA table or conclusion, no Tukey test, no
\* crash.
C7_FewStoresSkipsAnova ==
    (/\ script = "main"
     /\ \E k \in 1..Len(out) : out[k] = "Se necesitan al menos dos supermercados") =>
        /\ ~fitted
        /\ p_value_anova = Unset
        /\ ~tukeyCalled
        /\ exc = "none"

\* C8, as the specification states it: in either script the components start in the order of the
\* system overview (Data Loader, Assumption Checker, Visualizer, ANOVA Engine,
\* Post-Hoc Engine, Confidence-Interval Reporter, Extremes Comparator).
C8_OverviewOrder ==
    \A i, j \in 1..Len(Components) :
        i < j => PositionIn(OverviewOrder, Components[i])
                    < PositionIn(OverviewOrder, Components[j])

\* C8 amended: each script runs its components in the order of its own
\* sections, none before the one before it has finished: anova.py Data
\* Loader, Assumption Checker, Visualizer, ANOVA Engine, Post-Hoc Engine;
\* main.py Confidence-Interval Reporter, Data Loader, ANOVA Engine, Extremes
\* Comparator, and the Post-Hoc Engine inside the Extremes Comparator.  A run
\* that reaches the ANOVA decision and finishes has run all of them up to the
\* ANOVA Engine (and the Extremes Comparator in main.py).
C8_SectionOrder ==
    /\ script = "anova" => IsPrefix(Components, AnovaOrder)
    /\ script = "main" => IsPrefix(Components, MainOrder)
    /\ (pc = "done" /\ p_value_anova # Unset) => Len(Components) >= 4
\* C8 witness: a finished run of analyze_sales_data that ran all five of its
\* components.
C8_Witness ==
    /\ script = "main" /\ pc = "done"
    /\ Components = MainOrder

\* C9: a sheet with more than two columns is loaded without error (the step
\* that reads it does not raise), its first two columns kept as (date, sales)
\* and the others ignored.
C9_WideSheetLoads ==
    wideSeen =>
        /\ ~(pc = "raised"
             /\ Components[Len(Components)] \in {"DataLoader", "CIReporter"})
        /\ \A i \in 1..Len(df_all_sales) :
             InSheet(df_all_sales[i].Supermercado,
                     Row(df_all_sales[i].Fecha, df_all_sales[i].Ventas)) >= 1

\* C10: a month gets its 95%/99% interval if and only if it has at least two
\* observations and a sample standard deviation that is neither missing nor
\* zero; a month of two or more equal observations gets the
\* insufficient-data line.
C10_IntervalIffNonZeroDeviation ==
    CIReporterRan =>
        \A m \in MonthsOfDesignated : \A k \in LinesOfMonth(m) :
            (ic_report[k].texto = "IC 95% IC 99%")
                <=> (Cardinality(ObsOfMonth(m)) >= 2
                     /\ Cardinality(ValuesOfMonth(m)) >= 2)

====
